---- MODULE Spec2Model ----
(***************************************************************************)
(* State-machine model of LiveOlympicMedalCountPlugin (src/manager.py),    *)
(* the ticker variant of the medal-count plugin.  The host calls the       *)
(* plugin's hooks one at a time (single-threaded), so every hook is one    *)
(* atomic action.  Time is the wall clock in whole seconds.  A country     *)
(* record keeps the fields the modelled code reads: id, gold_medals,       *)
(* total_medals (the sort key) and whether flag_url is non-empty.          *)
(***************************************************************************)
EXTENDS Integers, Sequences, FiniteSets, TLC

(* ------------------------------ bounds -------------------------------- *)
\* longest dataset drawn for the fetch_data specification
MaxLen == 3
\* the clock runs from StartTime to MaxTime
MaxTime == 3
\* largest top_n_countries configured
MaxTopN == 2
\* most negative top_n_countries configured is -MinTopN
MinTopN == 1

(* ------------------------- program constants -------------------------- *)
\* time.time() is seconds since the epoch: far beyond any configured interval
StartTime == 2
\* ScrollHelper.display_width, the matrix width in abstract units
DisplayWidth == 1
\* last_fetch_time = 0.0 at construction and after on_config_change
NoFetchTime == 0

(* ------------------------------- data --------------------------------- *)
Country(i, g, t, f) == [id |-> i, gold_medals |-> g, total_medals |-> t, flag_url |-> f]

\* the records datasets are built from
Records ==
  { Country("USA", 1, 2, TRUE), Country("NOR", 1, 2, TRUE),
    Country("GER", 1, 1, FALSE), Country("NOR", 0, 2, TRUE),
    Country("USA", 0, 0, TRUE), Country("GER", 2, 2, TRUE) }

\* PLACEHOLDER_COUNTRIES: ten records in this order, every count 0, every
\* record with a flag_url
PLACEHOLDER_COUNTRIES ==
  << Country("NOR", 0, 0, TRUE), Country("GER", 0, 0, TRUE), Country("USA", 0, 0, TRUE),
     Country("CAN", 0, 0, TRUE), Country("SWE", 0, 0, TRUE), Country("SUI", 0, 0, TRUE),
     Country("AUT", 0, 0, TRUE), Country("ITA", 0, 0, TRUE), Country("FRA", 0, 0, TRUE),
     Country("NED", 0, 0, TRUE) >>

\* the datasets of the lifecycle specification: the placeholder list (USA is
\* ranked third), no data, no USA and a record without flag_url, and ids that
\* need upper-casing or are empty
LifeDataSets ==
  { PLACEHOLDER_COUNTRIES,
    << >>,
    << Country("NOR", 0, 2, TRUE), Country("GER", 2, 2, FALSE) >>,
    << Country("", 0, 0, TRUE), Country("usa", 0, 0, TRUE), Country("USA", 1, 2, TRUE) >> }

\* every list of at most MaxLen records
RECURSIVE SeqsUpTo(_, _)
SeqsUpTo(S, n) ==
  IF n = 0 THEN { << >> }
  ELSE LET shorter == SeqsUpTo(S, n - 1)
       IN shorter \cup { Append(q, r) : q \in { x \in shorter : Len(x) = n - 1 }, r \in S }

AllDataSets == SeqsUpTo(Records, MaxLen)

ViewModes == {"top5", "usa_only", "grid"}
\* display_options.view_mode as configured; "absent" when the key is missing
ConfigViewModes == ViewModes \cup {"absent"}
TopNs == (0 - MinTopN)..MaxTopN
UpdateIntervals == {1, 2}
Configs == [view_mode : ConfigViewModes, top_n_countries : TopNs, update_interval : UpdateIntervals]

Cfg(vm, n, i) == [view_mode |-> vm, top_n_countries |-> n, update_interval |-> i]

\* the configurations of the lifecycle specification: the defaults' shape
\* with a top N that cuts the list, an explicit top5 with a shorter interval,
\* and a view mode outside the enumeration with a zero top N.  (usa_only
\* downloads the flag of every record; it is exercised by FetchSpec.)
LifeConfigs ==
  { Cfg("absent", 3, 2), Cfg("top5", 1, 1), Cfg("grid", 0, 2) }

\* str.upper() on the ids of the model
Upper(s) == IF s = "usa" THEN "USA" ELSE s

\* the network during one update(): the set of codes whose flag download
\* raises (connection error, timeout, HTTP error status, undecodable image).
\* Every download succeeds or fails on its own.
NetOutcomes(codes) == SUBSET codes

KeyLessGoldOnly(a, b) == a[1] < b[1]

\* sort key of fetch_data: (gold_medals, total_medals), compared as tuples
KeyOf(c) == <<c.gold_medals, c.total_medals>>

\* tuple comparison of two sort keys
KeyLess(a, b) == a[1] < b[1] \/ (a[1] = b[1] /\ a[2] < b[2])

\* list.sort(key=..., reverse=True) is stable: an element goes after every
\* element whose key is not smaller than its own
RECURSIVE InsertDesc(_, _)
InsertDesc(s, c) ==
  IF s = <<>> THEN <<c>>
  ELSE IF KeyLess(KeyOf(Head(s)), KeyOf(c)) THEN <<c>> \o s
  ELSE <<Head(s)>> \o InsertDesc(Tail(s), c)

RECURSIVE SortFrom(_, _)
SortFrom(acc, rest) ==
  IF rest = <<>> THEN acc ELSE SortFrom(InsertDesc(acc, Head(rest)), Tail(rest))

SortDesc(data) == SortFrom(<<>>, data)

\* Python's s[:n], negative n counting from the end
PySliceTo(s, n) ==
  LET stop == IF n >= 0 THEN (IF n < Len(s) THEN n ELSE Len(s))
              ELSE (IF Len(s) + n > 0 THEN Len(s) + n ELSE 0)
  IN SubSeq(s, 1, stop)

(* ---------------------------- flag loading ---------------------------- *)
GetFlagForgettingFailures(fc, country, net_up) ==
  LET code == Upper(country.id) IN
  IF code = "" THEN [cache |-> fc, reqs |-> << >>, img |-> FALSE]
  ELSE IF code \in DOMAIN fc THEN [cache |-> fc, reqs |-> << >>, img |-> fc[code] = "img"]
  ELSE IF ~country.flag_url THEN [cache |-> fc, reqs |-> << >>, img |-> FALSE]
  ELSE IF net_up
       THEN [cache |-> (code :> "img") @@ fc, reqs |-> <<code>>, img |-> TRUE]
  ELSE [cache |-> fc, reqs |-> <<code>>, img |-> FALSE]

\* _get_flag: the cache after the call, the downloads it issued, and whether
\* it returned an image.  net_up says whether a download succeeds now.
GetFlag(fc, country, net_up) ==
  LET code == Upper(country.id) IN
  IF code = "" THEN [cache |-> fc, reqs |-> << >>, img |-> FALSE]
  ELSE IF code \in DOMAIN fc THEN [cache |-> fc, reqs |-> << >>, img |-> fc[code] = "img"]
  ELSE IF ~country.flag_url
       THEN [cache |-> (code :> "none") @@ fc, reqs |-> << >>, img |-> FALSE]
  ELSE IF net_up
       THEN [cache |-> (code :> "img") @@ fc, reqs |-> <<code>>, img |-> TRUE]
  ELSE [cache |-> (code :> "none") @@ fc, reqs |-> <<code>>, img |-> FALSE]

\* _prefetch_flags: _get_flag on every country in order; a download fails
\* when its code is in down
RECURSIVE PrefetchFlags(_, _, _)
PrefetchFlags(fc, cs, down) ==
  IF cs = << >> THEN [cache |-> fc, reqs |-> << >>]
  ELSE LET g == GetFlag(fc, Head(cs), Upper(Head(cs).id) \notin down)
           r == PrefetchFlags(g.cache, Tail(cs), down)
       IN [cache |-> r.cache, reqs |-> g.reqs \o r.reqs]

\* the codes _prefetch_flags requests a flag for, given the cache fc: what a
\* run of the loop requests (which codes are requested does not depend on
\* which downloads fail, since a failure is cached as well)
ToDownload(fc, cs) ==
  LET reqs == PrefetchFlags(fc, cs, {}).reqs
  IN { reqs[i] : i \in 1..Len(reqs) }

(* ---------------------------- data fetching --------------------------- *)
FetchDataAlwaysTruncating(data, vm, n) == PySliceTo(SortDesc(data), n)

FetchDataNeverTruncating(data, vm, n) == SortDesc(data)

\* fetch_data on the list `data`: sort, then truncate unless usa_only
FetchData(data, vm, n) ==
  LET sorted == SortDesc(data)
  IN IF vm = "usa_only" THEN sorted ELSE PySliceTo(sorted, n)

(* ------------------------------ rendering ----------------------------- *)
RECURSIVE FirstUSA(_)
FirstUSA(cs) ==
  IF cs = << >> THEN << >>
  ELSE IF Upper(Head(cs).id) = "USA" THEN << Head(cs) >>
  ELSE FirstUSA(Tail(cs))

\* _get_countries_for_view
GetCountriesForView(cs, vm, n) ==
  IF vm = "usa_only" THEN FirstUSA(cs) ELSE PySliceTo(cs, n)

HeaderCard == [kind |-> "header"]
PlaceholderCard == [kind |-> "placeholder"]

\* _render_country_card: the card shows rank, upper-cased code, the flag when
\* _get_flag returned one, and the record's counts
RECURSIVE RenderCards(_, _, _, _)
RenderCards(fc, cs, rank, down) ==
  IF cs = << >> THEN [cache |-> fc, reqs |-> << >>, cards |-> << >>]
  ELSE LET g == GetFlag(fc, Head(cs), Upper(Head(cs).id) \notin down)
           r == RenderCards(g.cache, Tail(cs), rank + 1, down)
           card == [kind |-> "country", rank |-> rank, code |-> Upper(Head(cs).id),
                    flag |-> g.img, country |-> Head(cs)]
       IN [cache |-> r.cache, reqs |-> g.reqs \o r.reqs, cards |-> <<card>> \o r.cards]

\* _render_scrolling_content: the content_items handed to the scroll helper
RenderScrollingContent(fc, cs, vm, n, down) ==
  LET view == GetCountriesForView(cs, vm, n)
      r == RenderCards(fc, view, 1, down)
  IN [cache |-> r.cache, reqs |-> r.reqs,
      items |-> <<HeaderCard>> \o r.cards
                \o (IF view = << >> THEN <<PlaceholderCard>> ELSE << >>)]

(* ---------------------- host scroll helper (external) ----------------- *)
\* total_scroll_width after create_scrolling_image: one unit per content item
\* after a lead-in of one display width; 0 while there is no strip
ScrollWidth(items) == IF items = << >> THEN 0 ELSE DisplayWidth + Len(items)

\* update_scroll_position: one unit per call.  At the end of the strip the
\* helper marks the scroll complete and either wraps to 0 or holds the last
\* position; which one is the helper's choice (wraps).
HelperStep(pos, dist, complete, width, wraps) ==
  IF width = 0 THEN [pos |-> pos, dist |-> dist, complete |-> complete]
  ELSE LET ndist == IF dist < width THEN dist + 1 ELSE width IN
       IF pos + 1 < width
       THEN [pos |-> pos + 1, dist |-> ndist, complete |-> complete]
       ELSE [pos |-> IF wraps THEN 0 ELSE width - 1, dist |-> ndist, complete |-> TRUE]

(* ------------------------------- state -------------------------------- *)
VARIABLES
  dataset,                  \* the list fetch_data starts from
  config,                   \* self.config
  view_mode, top_n, update_interval,
  countries, last_fetch_time, needs_initial_render,
  flag_cache,               \* self._flag_cache: code -> "img" | "none"
  strip,                    \* content items of the helper's cached image
  scroll_position, scroll_complete, total_distance_scrolled,
  host_cache,               \* the host cache entry of the plugin
  now,                      \* time.time()
  fetched_at,               \* when fetch_data last ran (Never before the first)
  config_pending,           \* on_config_change ran and update() has not run since
  last                      \* what the last hook call did, as the host sees it

vars == << dataset, config, view_mode, top_n, update_interval, countries,
           last_fetch_time, needs_initial_render, flag_cache, strip,
           scroll_position, scroll_complete, total_distance_scrolled,
           host_cache, now, fetched_at, config_pending, last >>

Never == 0 - 1

\* a hook call that did nothing observable.  For update(), gap is the time
\* since fetch_data last ran, reset says last_fetch_time was NoFetchTime and
\* had_data that self.countries was non-empty, all three when it was called.
Quiet(hook) ==
  [hook |-> hook, fetched |-> FALSE, gap |-> Never, reset |-> FALSE, had_data |-> FALSE,
   raised |-> FALSE, logged |-> FALSE,
   pushed |-> FALSE, cleared |-> FALSE, wrapped |-> FALSE, reqs |-> << >>,
   ret |-> FALSE, arg |-> FALSE]

\* display_opts.get("view_mode", "top5")
ViewModeOf(cfg) == IF cfg.view_mode = "absent" THEN "top5" ELSE cfg.view_mode

\* __init__: the state after construction with configuration cfg
Constructed(cfg) ==
  /\ config = cfg
  /\ view_mode = ViewModeOf(cfg)
  /\ top_n = cfg.top_n_countries
  /\ update_interval = cfg.update_interval
  /\ countries = << >>
  /\ last_fetch_time = NoFetchTime
  /\ needs_initial_render = TRUE
  /\ flag_cache = << >>
  /\ strip = << >>
  /\ scroll_position = 0
  /\ scroll_complete = FALSE
  /\ total_distance_scrolled = 0
  /\ host_cache = [present |-> FALSE, value |-> << >>]
  /\ now = StartTime
  /\ fetched_at = Never
  /\ config_pending = FALSE
  /\ last = Quiet("init")

Init ==
  /\ dataset \in LifeDataSets
  /\ \E cfg \in LifeConfigs : Constructed(cfg)

(* ------------------------------- hooks -------------------------------- *)
ShouldFetchAlways(t, lft, interval, cs) == TRUE

\* the condition of update()
ShouldFetch(t, lft, interval, cs) == t - lft >= interval \/ cs = << >>

\* update(): once fetch_data has returned, down is the network during the
\* flag downloads and render_fails makes the strip composition raise
Update ==
  LET gap == IF fetched_at = Never THEN Never ELSE now - fetched_at
      called == [Quiet("update") EXCEPT !.gap = gap,
                                        !.reset = (last_fetch_time = NoFetchTime),
                                        !.had_data = (countries # << >>)]
  IN
  /\ config_pending' = FALSE
  /\ IF ~ShouldFetch(now, last_fetch_time, update_interval, countries)
       THEN /\ last' = called
            /\ UNCHANGED << dataset, config, view_mode, top_n, update_interval, countries,
                            last_fetch_time, needs_initial_render, flag_cache, strip,
                            scroll_position, scroll_complete, total_distance_scrolled,
                            host_cache, now, fetched_at >>
       ELSE \E cs \in { FetchData(dataset, view_mode, top_n) } :
            \E down \in NetOutcomes(ToDownload(flag_cache, cs)),
               render_fails \in BOOLEAN :
            \E pf \in { PrefetchFlags(flag_cache, cs, down) } :
            \E rn \in { RenderScrollingContent(pf.cache, cs, view_mode, top_n, down) } :
               /\ countries' = cs
               /\ last_fetch_time' = now
               /\ fetched_at' = now
               /\ IF render_fails
                  THEN /\ flag_cache' = pf.cache
                       /\ last' = [called EXCEPT !.fetched = TRUE, !.reqs = pf.reqs,
                                                 !.raised = TRUE]
                       /\ UNCHANGED << strip, scroll_position, scroll_complete,
                                       total_distance_scrolled, needs_initial_render >>
                  ELSE /\ flag_cache' = rn.cache
                       /\ strip' = rn.items
                       /\ scroll_position' = 0
                       /\ scroll_complete' = FALSE
                       /\ total_distance_scrolled' = 0
                       /\ needs_initial_render' = FALSE
                       /\ last' = [called EXCEPT !.fetched = TRUE, !.reqs = pf.reqs \o rn.reqs]
               /\ UNCHANGED << dataset, config, view_mode, top_n, update_interval,
                               host_cache, now >>

DisplayFails == {"none", "clear", "scroll", "push"}

DisplayLoadingLazily(force_clear, fail, wraps) ==
  /\ needs_initial_render
  /\ fail = "none"
  /\ \E cs \in { FetchData(dataset, view_mode, top_n) } :
     \E pf \in { PrefetchFlags(flag_cache, cs, {}) } :
     /\ countries' = cs
     /\ flag_cache' = pf.cache
     /\ last' = [Quiet("display") EXCEPT !.cleared = force_clear, !.reqs = pf.reqs]
     /\ UNCHANGED << dataset, config, view_mode, top_n, update_interval,
                     last_fetch_time, needs_initial_render, strip, scroll_position,
                     scroll_complete, total_distance_scrolled, host_cache, now,
                     fetched_at, config_pending >>

\* display(force_clear): fail names the call that raises, wraps is the
\* helper's choice at the end of the strip
Display(force_clear, fail, wraps) ==
  LET h == HelperStep(scroll_position, total_distance_scrolled, scroll_complete,
                      ScrollWidth(strip), wraps)
      wrapped == (scroll_position - h.pos) > DisplayWidth
      base == [Quiet("display") EXCEPT !.arg = force_clear]
  IN
  /\ UNCHANGED << dataset, config, view_mode, top_n, update_interval, countries,
                  last_fetch_time, needs_initial_render, flag_cache, strip,
                  host_cache, now, fetched_at, config_pending >>
  /\ IF fail = "clear"
     THEN /\ force_clear
          /\ last' = [base EXCEPT !.logged = TRUE]
          /\ UNCHANGED << scroll_position, scroll_complete, total_distance_scrolled >>
     ELSE IF needs_initial_render
     THEN /\ fail = "none"
          /\ last' = [base EXCEPT !.cleared = force_clear]
          /\ UNCHANGED << scroll_position, scroll_complete, total_distance_scrolled >>
     ELSE IF fail = "scroll"
     THEN /\ last' = [base EXCEPT !.cleared = force_clear, !.logged = TRUE]
          /\ UNCHANGED << scroll_position, scroll_complete, total_distance_scrolled >>
     ELSE /\ scroll_position' = h.pos
          /\ scroll_complete' = IF wrapped THEN FALSE ELSE h.complete
          /\ total_distance_scrolled' = IF wrapped THEN 0 ELSE h.dist
          /\ IF strip = << >>
             THEN /\ fail = "none"
                  /\ last' = [base EXCEPT !.cleared = force_clear, !.wrapped = wrapped]
             ELSE IF fail = "push"
             THEN last' = [base EXCEPT !.cleared = force_clear, !.wrapped = wrapped,
                                       !.logged = TRUE]
             ELSE last' = [base EXCEPT !.cleared = force_clear, !.wrapped = wrapped,
                                       !.pushed = TRUE]

IsCycleCompleteFromHelper == scroll_complete

\* the result of is_cycle_complete()
IsCycleCompleteValue == FALSE

IsCycleComplete ==
  /\ last' = [Quiet("is_cycle_complete") EXCEPT !.ret = IsCycleCompleteValue,
                                                !.arg = scroll_complete]
  /\ UNCHANGED << dataset, config, view_mode, top_n, update_interval, countries,
                  last_fetch_time, needs_initial_render, flag_cache, strip,
                  scroll_position, scroll_complete, total_distance_scrolled,
                  host_cache, now, fetched_at, config_pending >>

\* reset_cycle_state(): the helper's reset_scroll()
ResetCycleState ==
  /\ scroll_position' = 0
  /\ scroll_complete' = FALSE
  /\ total_distance_scrolled' = 0
  /\ last' = Quiet("reset_cycle_state")
  /\ UNCHANGED << dataset, config, view_mode, top_n, update_interval, countries,
                  last_fetch_time, needs_initial_render, flag_cache, strip,
                  host_cache, now, fetched_at, config_pending >>

OnConfigChangeRequestingRender(cfg) ==
  /\ config' = cfg
  /\ view_mode' = ViewModeOf(cfg)
  /\ update_interval' = cfg.update_interval
  /\ top_n' = cfg.top_n_countries
  /\ last_fetch_time' = NoFetchTime
  /\ needs_initial_render' = TRUE
  /\ config_pending' = TRUE
  /\ last' = Quiet("on_config_change")
  /\ UNCHANGED << dataset, countries, flag_cache, strip,
                  scroll_position, scroll_complete, total_distance_scrolled,
                  host_cache, now, fetched_at >>

\* on_config_change(new_config)
OnConfigChange(cfg) ==
  /\ config' = cfg
  /\ view_mode' = ViewModeOf(cfg)
  /\ update_interval' = cfg.update_interval
  /\ top_n' = cfg.top_n_countries
  /\ last_fetch_time' = NoFetchTime
  /\ config_pending' = TRUE
  /\ last' = Quiet("on_config_change")
  /\ UNCHANGED << dataset, countries, needs_initial_render, flag_cache, strip,
                  scroll_position, scroll_complete, total_distance_scrolled,
                  host_cache, now, fetched_at >>

ValidateConfigAcceptingAny(cfg, base_ok) == base_ok

\* the result of validate_config(); base_ok is super().validate_config()
ValidateConfigValue(cfg, base_ok) ==
  IF ~base_ok THEN FALSE
  ELSE IF ViewModeOf(cfg) \notin {"top5", "usa_only"} THEN FALSE
  ELSE TRUE

ValidateConfig(base_ok) ==
  /\ last' = [Quiet("validate_config") EXCEPT !.ret = ValidateConfigValue(config, base_ok),
                                              !.arg = base_ok,
                                              !.logged = base_ok /\ ~ValidateConfigValue(config, base_ok)]
  /\ UNCHANGED << dataset, config, view_mode, top_n, update_interval, countries,
                  last_fetch_time, needs_initial_render, flag_cache, strip,
                  scroll_position, scroll_complete, total_distance_scrolled,
                  host_cache, now, fetched_at, config_pending >>

\* cleanup(): the helper drops its cached image
Cleanup ==
  /\ strip' = << >>
  /\ last' = Quiet("cleanup")
  /\ UNCHANGED << dataset, config, view_mode, top_n, update_interval, countries,
                  last_fetch_time, needs_initial_render, flag_cache,
                  scroll_position, scroll_complete, total_distance_scrolled,
                  host_cache, now, fetched_at, config_pending >>

\* the clock advances between hook calls
Tick ==
  /\ now < MaxTime
  /\ now' = now + 1
  /\ UNCHANGED << dataset, config, view_mode, top_n, update_interval, countries,
                  last_fetch_time, needs_initial_render, flag_cache, strip,
                  scroll_position, scroll_complete, total_distance_scrolled,
                  host_cache, fetched_at, config_pending, last >>

Next ==
  \/ Update
  \/ \E force_clear \in BOOLEAN, fail \in DisplayFails, wraps \in BOOLEAN :
        Display(force_clear, fail, wraps)
  \/ IsCycleComplete
  \/ ResetCycleState
  \/ \E cfg \in LifeConfigs : OnConfigChange(cfg)
  \/ \E base_ok \in BOOLEAN : ValidateConfig(base_ok)
  \/ Cleanup
  \/ Tick

Spec == Init /\ [][Next]_vars

\* fetch_data and the first render on every list of at most MaxLen records
\* and on the placeholder list, under every configuration and every network
\* outcome
FetchInit ==
  /\ dataset \in AllDataSets \cup {PLACEHOLDER_COUNTRIES}
  /\ \E cfg \in Configs : Constructed(cfg)

FetchNext == Update

FetchSpec == FetchInit /\ [][FetchNext]_vars

(* ============================== claims ================================ *)

\* C1 as stated: update() calls fetch_data only if the time since the last
\* fetch is at least update_interval or nothing was ever fetched, so a second
\* update() within update_interval of a fetching one never fetches (stated
\* here for a source list that is not empty).
C1_FetchOnlyWhenDue ==
  (last.hook = "update" /\ last.fetched /\ dataset # << >>)
    => (last.gap = Never \/ last.gap >= update_interval)

\* C1 amended: update() fetches exactly when the interval has elapsed since
\* the last fetch, or on_config_change has reset last_fetch_time since then,
\* or self.countries is empty (nothing fetched yet, or the last fetch
\* returned an empty list); a second update() within update_interval of a
\* fetching one performs no fetch when neither exception applies.
C1_FetchCadence ==
  last.hook = "update" =>
    (last.fetched <=> (\/ last.gap = Never
                       \/ last.gap >= update_interval
                       \/ last.reset
                       \/ ~last.had_data))

C1_Witness ==
  /\ last.hook = "update" /\ ~last.fetched
  /\ last.gap # Never /\ last.gap < update_interval
  /\ view_mode = "top5" /\ countries # << >>

\* the records of the country cards of the strip, in order
RECURSIVE CardCountries(_)
CardCountries(items) ==
  IF items = << >> THEN << >>
  ELSE IF Head(items).kind = "country"
       THEN << Head(items).country >> \o CardCountries(Tail(items))
  ELSE CardCountries(Tail(items))

Rendered == CardCountries(strip)

\* an update() call that fetched and built the strip
UpdateRendered == last.hook = "update" /\ last.fetched /\ ~last.raised

HasUSA(cs) == \E i \in 1..Len(cs) : Upper(cs[i].id) = "USA"

\* (a.gold, a.total) >= (b.gold, b.total) lexicographically
LexGE(a, b) ==
  \/ a.gold_medals > b.gold_medals
  \/ a.gold_medals = b.gold_medals /\ a.total_medals >= b.total_medals

\* C2: the list fetch_data returns is ordered by gold_medals descending, ties
\* broken by total_medals descending: adjacent records a, b satisfy
\* (a.gold, a.total) >= (b.gold, b.total).
C2_FetchSorted ==
  (last.hook = "update" /\ last.fetched)
    => \A i \in 1..(Len(countries) - 1) : LexGE(countries[i], countries[i + 1])

C2_Witness ==
  /\ last.hook = "update" /\ last.fetched
  /\ Len(countries) = MaxLen
  /\ countries[1].gold_medals = countries[2].gold_medals
  /\ countries[1].total_medals > countries[2].total_medals
  /\ dataset[1] = countries[MaxLen]

\* the countries to render in the current state
View == GetCountriesForView(countries, view_mode, top_n)

\* C3: in usa_only mode, after an update() the countries to render are at
\* most one record, its id is USA (upper-cased, as the code compares it), and
\* it is there exactly when the dataset holds a USA record, whatever its rank
\* and top_n; the strip an update() builds shows exactly that set.
C3_UsaOnly ==
  (last.hook = "update" /\ view_mode = "usa_only")
    => /\ Len(View) <= 1
       /\ \A i \in 1..Len(View) : Upper(View[i].id) = "USA"
       /\ (View = << >>) <=> ~HasUSA(dataset)
       /\ UpdateRendered => Rendered = View

C3_Witness ==
  /\ UpdateRendered /\ view_mode = "usa_only"
  /\ Len(Rendered) = 1
  /\ top_n >= 0
  /\ \E i \in 1..Len(countries) : i > top_n /\ countries[i] = Rendered[1]
  /\ ~HasUSA(SubSeq(countries, 1, top_n))

C5_FetchPersists ==
  (last.hook = "update" /\ last.fetched)
    => (host_cache.present /\ host_cache.value = countries)

\* C6: no rendering failure escapes a plugin hook, neither from display() nor
\* from the strip composition that update() triggers.
C6_NothingEscapes == ~last.raised

\* C7: network requests are issued only by an update() call that decided to
\* fetch; display() and every other hook issue none.
C7_RequestsOnlyInFetchingUpdate ==
  last.reqs # << >> => (last.hook = "update" /\ last.fetched)

C7_Witness ==
  /\ last.hook = "display" /\ last.pushed /\ last.reqs = << >>
  /\ \E i \in 1..Len(countries) : Upper(countries[i].id) \notin DOMAIN flag_cache

\* C8 as stated: once display() calls have scrolled the strip through,
\* is_cycle_complete() reports True.
C8_CycleCompleteSignalled ==
  [][ (/\ last.hook = "display"
       /\ (last.wrapped \/ scroll_complete)
       /\ last'.hook = "is_cycle_complete") => last'.ret ]_vars

\* C8 amended: is_cycle_complete() reports False in every state, also when
\* the helper has marked the scroll complete; a display() call that detects
\* the wrap clears the helper's completion flag and distance, and
\* reset_cycle_state() resets the helper's scroll.
C8_NeverSignalsCompletion ==
  /\ last.hook = "is_cycle_complete" => ~last.ret
  /\ (last.hook = "display" /\ last.wrapped)
       => (~scroll_complete /\ total_distance_scrolled = 0)
  /\ last.hook = "reset_cycle_state"
       => (scroll_position = 0 /\ ~scroll_complete /\ total_distance_scrolled = 0)

C8_Witness ==
  last.hook = "is_cycle_complete" /\ last.arg /\ ~last.ret

\* the first n records of s
FirstN(s, n) == [i \in 1..(IF n < Len(s) THEN n ELSE Len(s)) |-> s[i]]

\* C9 as stated: in top5 mode, for every integer top_n_countries, fetch_data
\* returns (and the strip shows) at most top_n_countries records, the first
\* top_n_countries of the sorted list (stated here for lists of MaxLen
\* records).
C9_TopNAnyInteger ==
  (last.hook = "update" /\ last.fetched /\ view_mode = "top5" /\ Len(dataset) = MaxLen)
    => /\ Len(countries) <= top_n
       /\ countries = FirstN(SortDesc(dataset), top_n)
       /\ View = countries
       /\ UpdateRendered => Rendered = countries

\* C9 amended: in top5 mode, for every top_n_countries >= 0, fetch_data
\* returns (and the strip shows) at most top_n_countries records, the first
\* top_n_countries of the sorted list.
C9_TopNNonNegative ==
  (last.hook = "update" /\ last.fetched /\ view_mode = "top5" /\ top_n >= 0)
    => /\ Len(countries) <= top_n
       /\ countries = FirstN(SortDesc(dataset), top_n)
       /\ View = countries
       /\ UpdateRendered => Rendered = countries

C9_Witness ==
  /\ UpdateRendered /\ view_mode = "top5"
  /\ top_n > 0 /\ Len(dataset) > top_n
  /\ Len(countries) = top_n /\ Rendered = countries
  /\ countries # SubSeq(dataset, 1, top_n)

\* C10: a flag cache entry, image or None, is never removed or changed; a
\* download is attempted only for a code without an entry and leaves an entry
\* behind, so each code is downloaded at most once and a failure is not
\* retried.
C10_FlagCacheMemoizes ==
  /\ [][ /\ \A c \in DOMAIN flag_cache :
              c \in DOMAIN flag_cache' /\ flag_cache'[c] = flag_cache[c]
         /\ last' # last =>
              \A i \in 1..Len(last'.reqs) : last'.reqs[i] \notin DOMAIN flag_cache ]_vars
  /\ [](\A i \in 1..Len(last.reqs) :
          /\ last.reqs[i] \in DOMAIN flag_cache
          /\ \A j \in 1..Len(last.reqs) : last.reqs[j] = last.reqs[i] => j = i)

C10_Witness ==
  /\ last.hook = "update" /\ last.fetched /\ last.reqs = << >>
  /\ \E i \in 1..Len(countries) :
       /\ countries[i].flag_url
       /\ Upper(countries[i].id) \in DOMAIN flag_cache
       /\ flag_cache[Upper(countries[i].id)] = "none"
  /\ Cardinality({ c \in DOMAIN flag_cache : flag_cache[c] = "none" }) >= 2
  /\ \E c \in DOMAIN flag_cache : flag_cache[c] = "img"

\* C11: the first update() after an on_config_change() fetches, however
\* recent the previous fetch, with the new view_mode and top_n, and rebuilds
\* the strip so that it shows the countries of the new configuration; until
\* then display() and on_config_change() leave the strip as it was.
C11_ConfigChangeForcesRefresh ==
  [][ /\ (config_pending /\ ~config_pending') =>
           /\ last'.hook = "update" /\ last'.fetched
           /\ fetched_at' = now /\ last_fetch_time' = now
           /\ countries' = FetchData(dataset, ViewModeOf(config), config.top_n_countries)
           /\ CardCountries(strip') =
                GetCountriesForView(countries', ViewModeOf(config),
                                    config.top_n_countries)
           /\ scroll_position' = 0
      /\ (config_pending' /\ last'.hook \in {"display", "on_config_change"}) =>
           strip' = strip ]_vars

\* C12: display() pushes a frame only after an update() has fetched,
\* prefetched the flags and built the strip; before that it changes nothing
\* and at most clears the display, and only when force_clear is set;
\* needs_initial_render is cleared only by such an update() and, once False,
\* never becomes True again.
C12_DisplayWaitsForUpdate ==
  /\ [](last.pushed => (last.hook = "display" /\ ~needs_initial_render
                                              /\ fetched_at # Never))
  /\ []((last.hook = "display" /\ last.cleared) => last.arg)
  /\ [][ /\ (needs_initial_render /\ ~needs_initial_render') =>
             /\ last'.hook = "update" /\ last'.fetched /\ ~last'.raised
             /\ countries' = FetchData(dataset, view_mode, top_n)
             /\ \A i \in 1..Len(countries') :
                  Upper(countries'[i].id) # "" =>
                    Upper(countries'[i].id) \in DOMAIN flag_cache'
             /\ strip' # << >>
         /\ ~needs_initial_render => ~needs_initial_render'
         /\ (needs_initial_render /\ last'.hook = "display" /\ last' # last) =>
             /\ ~last'.pushed
             /\ UNCHANGED << dataset, config, view_mode, top_n, update_interval,
                             countries, last_fetch_time, needs_initial_render,
                             flag_cache, strip, scroll_position, scroll_complete,
                             total_distance_scrolled, host_cache, now, fetched_at >> ]_vars

C12_Witness ==
  /\ last.hook = "display" /\ last.pushed /\ last.cleared
  /\ ~needs_initial_render /\ config_pending

====
